---- MODULE Spec2Model ----
(***************************************************************************)
(* Model of src/app/main.py: the FastAPI application that serves the       *)
(* 'proyectos' and 'detalle_proyecto' worksheets as JSON and as a rendered *)
(* HTML fragment.                                                          *)
(*                                                                         *)
(* A worksheet cell, as get_all_records delivers it, is either a number    *)
(* (numericised) or a string; a string is modelled as a sequence of        *)
(* one-character strings so that lower(), upper(), strip() and int() are   *)
(* computed character by character.  Text that is only concatenated        *)
(* (the html) is a TLA+ string.                                            *)
(***************************************************************************)
EXTENDS Integers, Sequences, FiniteSets, TLC

VARIABLES pc, path, endpoint, records, rows, html, result, fault

vars == <<pc, path, endpoint, records, rows, html, result, fault>>

\* Largest number of data rows a worksheet holds in the model.
MaxRows == 2

-----------------------------------------------------------------------------
(* Characters and Python string methods *)

\* The characters the model uses, in code point order.
ASCII ==
  << "\t", " ", "0", "1", "2", "3", "4", "5", "6", "7", "8", "9",
     "A", "B", "C", "D", "E", "F", "G", "H", "I", "J", "K", "L", "M",
     "N", "O", "P", "Q", "R", "S", "T", "U", "V", "W", "X", "Y", "Z", "_",
     "a", "b", "c", "d", "e", "f", "g", "h", "i", "j", "k", "l", "m",
     "n", "o", "p", "q", "r", "s", "t", "u", "v", "w", "x", "y", "z" >>

Uppers == SubSeq(ASCII, 13, 38)
Lowers == SubSeq(ASCII, 40, 65)
Digits == SubSeq(ASCII, 3, 12)
Whitespace == {"\t", " "}

IndexOf(c, seq) == CHOOSE i \in DOMAIN seq : seq[i] = c
IsIn(c, seq) == \E i \in DOMAIN seq : seq[i] = c

\* ord(c)
Ord(c) == IndexOf(c, ASCII)

LowerChar(c) == IF IsIn(c, Uppers) THEN Lowers[IndexOf(c, Uppers)] ELSE c
UpperChar(c) == IF IsIn(c, Lowers) THEN Uppers[IndexOf(c, Lowers)] ELSE c

\* str.lower()
Lower(s) == IF s = <<>> THEN <<>> ELSE [i \in 1..Len(s) |-> LowerChar(s[i])]
\* str.upper()
Upper(s) == IF s = <<>> THEN <<>> ELSE [i \in 1..Len(s) |-> UpperChar(s[i])]

RECURSIVE LStrip(_)
LStrip(s) ==
  IF s # <<>> /\ Head(s) \in Whitespace THEN LStrip(Tail(s)) ELSE s

RECURSIVE RStrip(_)
RStrip(s) ==
  IF s # <<>> /\ s[Len(s)] \in Whitespace
  THEN RStrip(SubSeq(s, 1, Len(s) - 1))
  ELSE s

\* str.strip()
Strip(s) == RStrip(LStrip(s))

\* The characters of s as one string (what an f-string interpolates).
RECURSIVE Join(_)
Join(s) == IF s = <<>> THEN "" ELSE Head(s) \o Join(Tail(s))

\* s < t on strings: lexicographic by code point.
RECURSIVE StrLess(_, _)
StrLess(s, t) ==
  IF t = <<>> THEN FALSE
  ELSE IF s = <<>> THEN TRUE
  ELSE IF Head(s) # Head(t) THEN Ord(Head(s)) < Ord(Head(t))
  ELSE StrLess(Tail(s), Tail(t))

RECURSIVE DigitsValue(_, _)
DigitsValue(s, acc) ==
  IF s = <<>> THEN acc
  ELSE DigitsValue(Tail(s), 10 * acc + (IndexOf(Head(s), Digits) - 1))

\* int(s) of a string: surrounding whitespace is dropped, one sign is
\* allowed, and anything but a run of digits after it is a ValueError.
Unsigned(s) ==
  LET d == Strip(s) IN
  IF d # <<>> /\ Head(d) \in {"+", "-"} THEN Tail(d) ELSE d
IntOk(s) ==
  LET d == Unsigned(s) IN d # <<>> /\ \A i \in 1..Len(d) : IsIn(d[i], Digits)
IntValue(s) ==
  LET d == Strip(s) IN
  IF Head(d) = "-" THEN 0 - DigitsValue(Unsigned(s), 0)
  ELSE DigitsValue(Unsigned(s), 0)

RECURSIVE IntToStr(_)
\* str(n) for n >= 0
IntToStr(n) ==
  IF n < 10 THEN Digits[n + 1]
  ELSE IntToStr(n \div 10) \o Digits[(n % 10) + 1]

-----------------------------------------------------------------------------
(* Worksheet cells *)

\* A numeric cell, a string cell, and a key the record does not have.
Num(n) == [t |-> "int", n |-> n, s |-> <<>>]
Str(s) == [t |-> "str", n |-> 0, s |-> s]
Absent == [t |-> "absent", n |-> 0, s |-> <<>>]

\* bool(x): 0, '' and None (dict.get of a missing key) are falsy.
Truthy(c) ==
  CASE c.t = "int" -> c.n # 0
    [] c.t = "str" -> c.s # <<>>
    [] OTHER -> FALSE

\* x == y in Python: a number never equals a string.
PyEq(a, b) == a.t = b.t /\ a.n = b.n /\ a.s = b.s

\* f"{x}"
Format(c) == IF c.t = "int" THEN IntToStr(c.n) ELSE Join(c.s)

-----------------------------------------------------------------------------
(* get_project_html: select, order, transcode *)

\* css_styles: the constant style sheet (its 86 lines of CSS are elided).
css_styles == "<style>/* css_styles */</style>"

\* record['ID_proyecto'] == project_id, project_id being the path string
GroupMatches(record, project_id) == PyEq(record.ID_proyecto, Str(project_id))

\* As Visible, but the flag is lower-cased before it is compared.
VisibleLowerCased(record) ==
  ~(record.visibilidad.t = "str" /\ Lower(record.visibilidad.s) = <<"n", "o">>)

\* record['visibilidad'] != 'no'
Visible(record) == ~PyEq(record.visibilidad, Str(<<"n", "o">>))

\* The test that guards rows.append(record).
Selected(record, project_id) ==
  /\ GroupMatches(record, project_id)
  /\ Truthy(record.nivel_texto)
  /\ Visible(record)

\* a < b on two sort keys of the same type
KeyLess(a, b) == IF a.t = "int" THEN a.n < b.n ELSE StrLess(a.s, b.s)

\* What list.sort(key=lambda x: x['orden']) raises: the keys are computed
\* first (KeyError on a record without the key), then compared (TypeError
\* as soon as a number meets a string).
SortFault(rws) ==
  IF \E i \in DOMAIN rws : rws[i].orden.t = "absent" THEN "KeyError"
  ELSE IF \E i, j \in DOMAIN rws : rws[i].orden.t # rws[j].orden.t
       THEN "TypeError"
       ELSE "none"

\* As Insert, but r goes before the elements whose key equals its own.
RECURSIVE InsertBeforeTies(_, _)
InsertBeforeTies(sorted, r) ==
  IF sorted = <<>> THEN <<r>>
  ELSE IF ~KeyLess(Head(sorted).orden, r.orden) THEN <<r>> \o sorted
  ELSE <<Head(sorted)>> \o InsertBeforeTies(Tail(sorted), r)

\* r placed after every element whose key is not greater than r's.
RECURSIVE Insert(_, _)
Insert(sorted, r) ==
  IF sorted = <<>> THEN <<r>>
  ELSE IF KeyLess(r.orden, Head(sorted).orden) THEN <<r>> \o sorted
  ELSE <<Head(sorted)>> \o Insert(Tail(sorted), r)

RECURSIVE SortFrom(_, _)
SortFrom(rws, sorted) ==
  IF rws = <<>> THEN sorted ELSE SortFrom(Tail(rws), Insert(sorted, Head(rws)))

\* list.sort(key=lambda x: x['orden']): ascending and stable.
Sort(rws) == SortFrom(rws, <<>>)

\* The loop of lines 193-199 from record i on; acc = [rows, fault].
RECURSIVE SelectFrom(_, _, _, _)
SelectFrom(recs, project_id, i, acc) ==
  IF i > Len(recs) \/ acc.fault # "none" THEN acc
  ELSE IF Selected(recs[i], project_id)
       THEN LET appended == Append(acc.rows, recs[i]) IN
            IF SortFault(appended) # "none"
            THEN [rows |-> appended, fault |-> SortFault(appended)]
            ELSE SelectFrom(recs, project_id, i + 1,
                            [rows |-> Sort(appended), fault |-> "none"])
       ELSE SelectFrom(recs, project_id, i + 1, acc)

\* As SelectRows, but the whole worksheet is sorted before it is filtered.
SelectRowsSortedFirst(recs, project_id) ==
  IF SortFault(recs) # "none"
  THEN [rows |-> recs, fault |-> SortFault(recs)]
  ELSE SelectFrom(Sort(recs), project_id, 1, [rows |-> <<>>, fault |-> "none"])

SelectRows(recs, project_id) ==
  SelectFrom(recs, project_id, 1, [rows |-> <<>>, fault |-> "none"])

\* As Normalize, without the strip().
NormalizeUnstripped(tag) == Join(Upper(tag))

\* row['nivel_texto'].strip().upper()
Normalize(tag) == Join(Upper(Strip(tag)))

\* The match statement: the fragment appended for a normalised tag.
Fragment(nivel_texto, texto) ==
  CASE nivel_texto \in {"H1", "H1_CENTRO"} -> "<h1 class='text-center mt-0'>" \o texto \o "</h1>"
    [] nivel_texto = "H1_IZQUIERDA" -> "<h1 class='text-start mt-0'>" \o texto \o "</h1>"
    [] nivel_texto = "H1_DERECHA" -> "<h1 class='text-end mt-0'>" \o texto \o "</h1>"
    [] nivel_texto \in {"H2", "H2_CENTRO"} -> "<h2 class='text-center mt-0'>" \o texto \o "</h2>"
    [] nivel_texto = "H2_IZQUIERDA" -> "<h2 class='text-start mt-0'>" \o texto \o "</h2>"
    [] nivel_texto = "H2_DERECHA" -> "<h2 class='text-end mt-0'>" \o texto \o "</h2>"
    [] nivel_texto \in {"H3", "H3_CENTRO"} -> "<h3 class='text-center mt-0'>" \o texto \o "</h3>"
    [] nivel_texto = "H3_IZQUIERDA" -> "<h3 class='text-start mt-0'>" \o texto \o "</h3>"
    [] nivel_texto = "H3_DERECHA" -> "<h3 class='text-end mt-0'>" \o texto \o "</h3>"
    [] nivel_texto \in {"H4", "H4_CENTRO"} -> "<h4 class='text-center mt-0'>" \o texto \o "</h4>"
    [] nivel_texto = "H4_IZQUIERDA" -> "<h4 class='text-start mt-0'>" \o texto \o "</h4>"
    [] nivel_texto = "H4_DERECHA" -> "<h4 class='text-end mt-0'>" \o texto \o "</h4>"
    [] nivel_texto \in {"H5", "H5_CENTRO"} -> "<h5 class='text-center mt-0'>" \o texto \o "</h5>"
    [] nivel_texto = "H5_IZQUIERDA" -> "<h5 class='text-start mt-0'>" \o texto \o "</h5>"
    [] nivel_texto = "H5_DERECHA" -> "<h5 class='text-end mt-0'>" \o texto \o "</h5>"
    [] nivel_texto \in {"H6", "H6_CENTRO"} -> "<h6 class='text-center mt-0'>" \o texto \o "</h6>"
    [] nivel_texto = "H6_IZQUIERDA" -> "<h6 class='text-start mt-0'>" \o texto \o "</h6>"
    [] nivel_texto = "H6_DERECHA" -> "<h6 class='text-end mt-0'>" \o texto \o "</h6>"
    [] nivel_texto = "P" -> "<p>" \o texto \o "</p>"
    [] nivel_texto = "IMG" -> "<img class='img-fluid mx-auto' src='" \o texto \o "' alt='" \o texto \o "' />"
    [] nivel_texto = "A" -> "<a href='" \o texto \o "' target='_blank' class='text-center'>" \o texto \o "</a>"
    [] nivel_texto = "BR" -> "<br />"
    [] nivel_texto = "HR" -> "<hr class='divider' />"
    [] nivel_texto = "IFRAME_LINK" -> "<iframe width='100%' height='600px' class='text-center my-3' src='" \o texto \o "' frameborder='0' allowfullscreen></iframe>"
    [] nivel_texto = "HTML_RAW" -> "<span class='my-3'>" \o texto \o "</span>"
    [] nivel_texto = "CSS" -> "<style>" \o texto \o "</style>"
    [] OTHER -> "<p>" \o texto \o "</p>"

\* The body of the loop of lines 292-351 for one row; a numeric nivel_texto
\* has no strip() (AttributeError).
RowFault(row) == IF row.nivel_texto.t = "str" THEN "none" ELSE "AttributeError"
RowFragment(row) == Fragment(Normalize(row.nivel_texto.s), Format(row.texto))

\* The loop of lines 292-351 from row i on; acc = [html, fault].
RECURSIVE TranscodeFrom(_, _, _)
TranscodeFrom(rws, i, acc) ==
  IF i > Len(rws) \/ acc.fault # "none" THEN acc
  ELSE IF RowFault(rws[i]) # "none"
       THEN [html |-> acc.html, fault |-> RowFault(rws[i])]
       ELSE TranscodeFrom(rws, i + 1,
              [html |-> acc.html \o RowFragment(rws[i]), fault |-> "none"])

\* As Transcode, but every fragment is followed by a newline.
RECURSIVE TranscodeLines(_)
TranscodeLines(rws) ==
  IF rws = <<>> THEN [html |-> css_styles, fault |-> "none"]
  ELSE LET out == TranscodeLines(SubSeq(rws, 1, Len(rws) - 1))
           row == rws[Len(rws)] IN
       IF out.fault # "none" THEN out
       ELSE IF RowFault(row) # "none"
            THEN [html |-> out.html, fault |-> RowFault(row)]
            ELSE [html |-> out.html \o RowFragment(row) \o "\n",
                  fault |-> "none"]

Transcode(rws) == TranscodeFrom(rws, 1, [html |-> css_styles, fault |-> "none"])

\* get_project_html(project_id) on the records the worksheet returns:
\* [rows, html, fault]; html is "" when the request dies before line 291.
get_project_html(recs, project_id) ==
  LET sel == SelectRows(recs, project_id) IN
  IF sel.fault # "none"
  THEN [rows |-> sel.rows, html |-> "", fault |-> sel.fault]
  ELSE LET out == Transcode(sel.rows) IN
       [rows |-> sel.rows, html |-> out.html, fault |-> out.fault]

-----------------------------------------------------------------------------
(* The project endpoints *)

\* filter(lambda x: x['visible'] != 'no', records)
ProjectVisible(record) == ~PyEq(record.visible, Str(<<"n", "o">>))

\* filter(lambda x: x['id'], records)
HasId(record) == Truthy(record.id)

\* get_projects(): sort the records, then drop the hidden ones, then those
\* without id.
get_projects(recs) ==
  IF SortFault(recs) # "none"
  THEN [fault |-> SortFault(recs), result |-> [kind |-> "none"]]
  ELSE [fault |-> "none",
        result |-> [kind |-> "list",
                    list |-> SelectSeq(SelectSeq(Sort(recs), ProjectVisible),
                                       HasId)]]

\* The first record from i on that has the id, as [found, record].
RECURSIVE FirstWithId(_, _, _)
FirstWithId(recs, i, project_id) ==
  IF i > Len(recs) THEN [found |-> FALSE]
  ELSE IF PyEq(recs[i].id, Num(project_id))
       THEN [found |-> TRUE, record |-> recs[i]]
       ELSE FirstWithId(recs, i + 1, project_id)

\* get_project(project_id)
get_project(recs, project_id) ==
  LET hit == FirstWithId(recs, 1, project_id) IN
  [fault |-> "none",
   result |-> IF hit.found THEN [kind |-> "record", record |-> hit.record]
              ELSE [kind |-> "empty"]]

\* record.get('slug', '')
SlugOf(record) == IF record.slug.t = "absent" THEN Str(<<>>) ELSE record.slug

\* As ByIdOrNotFound, without the retry by id.
NotFoundOnly(recs, slug) ==
  [fault |-> "none",
   result |-> [kind |-> "error", error |-> "Project not found", slug |-> slug]]

\* Lines 138-151: the slug read as an id, then the not-found payload.
ByIdOrNotFound(recs, slug) ==
  LET hit == IF IntOk(slug) THEN FirstWithId(recs, 1, IntValue(slug))
             ELSE [found |-> FALSE] IN
  [fault |-> "none",
   result |-> IF hit.found THEN [kind |-> "record", record |-> hit.record]
              ELSE [kind |-> "error", error |-> "Project not found",
                    slug |-> slug]]

\* Lines 130-135 from record i on, then lines 138-151.
RECURSIVE BySlugFrom(_, _, _)
BySlugFrom(recs, i, slug) ==
  IF i > Len(recs) THEN ByIdOrNotFound(recs, slug)
  ELSE IF SlugOf(recs[i]).t # "str"
       THEN [fault |-> "AttributeError", result |-> [kind |-> "none"]]
  ELSE IF Lower(SlugOf(recs[i]).s) = Lower(slug)
       THEN [fault |-> "none",
             result |-> IF ~Truthy(recs[i].id)
                        THEN [kind |-> "error",
                              error |-> "Project found but has no ID",
                              slug |-> slug]
                        ELSE [kind |-> "record", record |-> recs[i]]]
  ELSE BySlugFrom(recs, i + 1, slug)

\* get_project_by_slug(slug)
get_project_by_slug(recs, slug) == BySlugFrom(recs, 1, slug)

\* The loop of lines 165-172 from record i on; acc = [projects, fault].
RECURSIVE SlugsFrom(_, _, _)
SlugsFrom(recs, i, acc) ==
  IF i > Len(recs) \/ acc.fault # "none" THEN acc
  ELSE IF ~Truthy(recs[i].id) THEN SlugsFrom(recs, i + 1, acc)
  ELSE IF SlugOf(recs[i]).t # "str"
       THEN [projects |-> acc.projects, fault |-> "AttributeError"]
  ELSE SlugsFrom(recs, i + 1,
         [projects |-> Append(acc.projects,
                         [id |-> recs[i].id, proyecto |-> recs[i].proyecto,
                          slug |-> SlugOf(recs[i]),
                          has_slug |-> Strip(SlugOf(recs[i]).s) # <<>>]),
          fault |-> "none"])

\* get_all_slugs()
get_all_slugs(recs) ==
  LET out == SlugsFrom(recs, 1, [projects |-> <<>>, fault |-> "none"]) IN
  IF out.fault # "none"
  THEN [fault |-> out.fault, result |-> [kind |-> "none"]]
  ELSE [fault |-> "none",
        result |-> [kind |-> "slugs", total |-> Len(out.projects),
                    projects |-> out.projects]]

-----------------------------------------------------------------------------
(* Routing *)

Lit(s) == [param |-> FALSE, text |-> s]
Param(name) == [param |-> TRUE, text |-> name]

\* The @app.get decorators, in registration order.
Routes ==
  << [pattern |-> <<Lit("home")>>, endpoint |-> "get_home"],
     [pattern |-> <<Lit("projects")>>, endpoint |-> "get_projects"],
     [pattern |-> <<Lit("projects"), Param("project_id")>>,
      endpoint |-> "get_project"],
     [pattern |-> <<Lit("projects"), Lit("slug"), Param("slug")>>,
      endpoint |-> "get_project_by_slug"],
     [pattern |-> <<Lit("projects"), Lit("slugs")>>,
      endpoint |-> "get_all_slugs"],
     [pattern |-> <<Lit("project"), Param("project_id"), Lit("html")>>,
      endpoint |-> "get_project_html"] >>

\* A path, split at '/', against a route's pattern: a parameter takes any
\* non-empty segment, a literal only itself.
Matches(pattern, p) ==
  /\ Len(pattern) = Len(p)
  /\ \A i \in 1..Len(p) :
       IF pattern[i].param THEN p[i] # <<>> ELSE Join(p[i]) = pattern[i].text

\* The first registered route whose pattern matches takes the request.
RouteIndex(p) ==
  IF \E i \in DOMAIN Routes : Matches(Routes[i].pattern, p)
  THEN CHOOSE i \in DOMAIN Routes :
         /\ Matches(Routes[i].pattern, p)
         /\ \A j \in 1..(i - 1) : ~Matches(Routes[j].pattern, p)
  ELSE 0

RouteOf(p) == IF RouteIndex(p) = 0 THEN "none" ELSE Routes[RouteIndex(p)].endpoint

\* project_id: int on get_project: the segment must parse as an integer.
ParamsValid(ep, p) == ep = "get_project" => IntOk(p[2])

-----------------------------------------------------------------------------
(* Requests and worksheet contents the model draws from *)

c_no == <<"n", "o">>
c_No == <<"N", "o">>
c_NO == <<"N", "O">>
c_yes == <<"y", "e", "s">>
c_p1 == <<"p", "1">>
c_p2 == <<"p", "2">>
c_ab == <<"a", "b">>
c_AB == <<"A", "B">>
c_zz == <<"z", "z">>
c_abc == <<"a", "b", "c">>
c_Hello == <<"H", "e", "l", "l", "o">>
c_World == <<"W", "o", "r", "l", "d">>
c_projects == <<"p", "r", "o", "j", "e", "c", "t", "s">>
c_project == <<"p", "r", "o", "j", "e", "c", "t">>
c_slug == <<"s", "l", "u", "g">>
c_slugs == <<"s", "l", "u", "g", "s">>
c_html == <<"h", "t", "m", "l">>
c_nothing == <<"n", "o", "t", "h", "i", "n", "g">>

\* The slugs and group ids asked for.
RequestSlugs == {c_ab, c_AB, c_zz, <<"1">>}
RequestGroups == {c_p1, <<"1">>}

\* The request paths, split at '/'.
Paths ==
  {<<c_projects>>, <<c_projects, c_slugs>>, <<c_nothing>>}
  \cup {<<c_projects, x>> : x \in {<<"1">>, <<"2">>, c_abc}}
  \cup {<<c_projects, c_slug, x>> : x \in RequestSlugs}
  \cup {<<c_project, x, c_html>> : x \in RequestGroups}

\* Tags of the dispatch table, as they are spelled in the table.
HeadingSuffixes ==
  {<<>>, <<"_", "C", "E", "N", "T", "R", "O">>,
   <<"_", "I", "Z", "Q", "U", "I", "E", "R", "D", "A">>,
   <<"_", "D", "E", "R", "E", "C", "H", "A">>}
HeadingTags == {<<"H", Digits[n + 1]>> \o x : n \in 1..6, x \in HeadingSuffixes}
OtherTags ==
  {<<"P">>, <<"I", "M", "G">>, <<"A">>, <<"B", "R">>, <<"H", "R">>,
   <<"I", "F", "R", "A", "M", "E", "_", "L", "I", "N", "K">>,
   <<"H", "T", "M", "L", "_", "R", "A", "W">>, <<"C", "S", "S">>}
TableTags == HeadingTags \cup OtherTags

\* Tags that are in no table entry: an unknown name, two tags that only look
\* like table entries, and one that is blank.
UnknownTags ==
  {<<"U", "N", "K", "N", "O", "W", "N", "_", "T", "A", "G">>, <<"H", "7">>, <<"H", "1", "_">>, <<" ", " ">>}

\* Each tag as an author may type it: as is, lower-cased, padded.
Spellings(tag) == {tag, Lower(tag), <<" ">> \o Lower(tag) \o <<" ", "\t">>}

\* A detalle_proyecto record; row is the sheet row it came from (not a
\* column: it only tells equal records apart).
Detalle(g, o, t, v, x) ==
  [ID_proyecto |-> g, orden |-> o, nivel_texto |-> t, visibilidad |-> v,
   texto |-> x, row |-> 0]

DetalleRows ==
  {Detalle(g, o, Str(<<"P">>), Str(<<>>), Str(c_Hello)) :
     g \in {Str(c_p1), Str(c_p2), Num(1)},
     o \in {Num(1), Num(2), Str(<<>>), Str(<<"a">>), Absent}}
  \cup
  {Detalle(Str(c_p1), o, t, Str(<<>>), Str(c_Hello)) :
     o \in {Num(1), Num(2)},
     t \in {Str(<<" ", "h", "1", " ">>), Str(<<"H", "1">>), Str(<<"B", "R">>),
            Str(<<"X">>), Str(<<" ", " ">>), Str(<<>>), Num(5), Num(0)}}
  \cup
  {Detalle(Str(c_p1), o, Str(<<"P">>), v, Str(c_World)) :
     o \in {Num(1), Num(2)},
     v \in {Str(<<>>), Str(c_no), Str(c_No), Str(c_NO), Str(c_yes)}}

\* One row per spelling of every tag, in or out of the table.
TagRows ==
  {Detalle(Str(c_p1), Num(1), Str(sp), Str(c_yes), Str(c_Hello)) :
     sp \in UNION {Spellings(tag) : tag \in TableTags \cup UnknownTags}}

\* The three rows of the specification's scenario.
Scenario ==
  << Detalle(Str(c_p1), Num(2), Str(<<"P">>), Str(c_yes), Str(c_World)),
     Detalle(Str(c_p1), Num(1), Str(<<"H", "1">>), Str(c_yes), Str(c_Hello)),
     Detalle(Str(c_p1), Num(3), Str(<<"B", "R">>), Str(c_no), Str(<<>>)) >>

\* A proyectos record.
Proyecto(id, o, v, sl) ==
  [id |-> id, orden |-> o, visible |-> v, slug |-> sl,
   proyecto |-> Str(<<"x">>), row |-> 0]

ProyectoRows ==
  {Proyecto(id, o, v, Str(c_ab)) :
     id \in {Num(1), Num(2), Str(<<>>)},
     o \in {Num(1), Num(2), Str(<<>>)},
     v \in {Str(<<>>), Str(c_no), Str(c_No)}}
  \cup
  {Proyecto(id, Num(1), Str(<<>>), sl) :
     id \in {Num(1), Num(2), Str(<<>>)},
     sl \in {Str(c_ab), Str(c_AB), Str(c_zz), Str(<<>>), Num(7), Absent}}

\* The sequences of at most n elements of S.
SeqsUpTo(S, n) == UNION {[1..k -> S] : k \in 0..n}

\* Row 1 of a sheet is its header: record i comes from row i + 1.
Numbered(recs) ==
  IF recs = <<>> THEN <<>>
  ELSE [i \in 1..Len(recs) |-> [recs[i] EXCEPT !.row = i + 1]]

DetalleSheets ==
  {Numbered(recs) :
     recs \in SeqsUpTo(DetalleRows, MaxRows) \cup {<<r>> : r \in TagRows}
              \cup {Scenario}}

ProyectoSheets == {Numbered(recs) : recs \in SeqsUpTo(ProyectoRows, MaxRows)}

-----------------------------------------------------------------------------
(* The application *)

\* make_credentials(...).get_all_records(): what the endpoint's worksheet
\* may hold.
Worksheet(ep) ==
  IF ep = "get_project_html" THEN DetalleSheets ELSE ProyectoSheets

\* The endpoint function ep run on path p and records recs.
Run(ep, p, recs) ==
  CASE ep = "get_projects" ->
         LET out == get_projects(recs) IN
         [rows |-> <<>>, html |-> "", result |-> out.result, fault |-> out.fault]
    [] ep = "get_project" ->
         LET out == get_project(recs, IntValue(p[2])) IN
         [rows |-> <<>>, html |-> "", result |-> out.result, fault |-> out.fault]
    [] ep = "get_project_by_slug" ->
         LET out == get_project_by_slug(recs, p[3]) IN
         [rows |-> <<>>, html |-> "", result |-> out.result, fault |-> out.fault]
    [] ep = "get_all_slugs" ->
         LET out == get_all_slugs(recs) IN
         [rows |-> <<>>, html |-> "", result |-> out.result, fault |-> out.fault]
    [] ep = "get_project_html" ->
         LET out == get_project_html(recs, p[2]) IN
         [rows |-> out.rows, html |-> out.html, fault |-> out.fault,
          result |-> IF out.fault = "none"
                     THEN [kind |-> "html", html |-> out.html]
                     ELSE [kind |-> "none"]]

Init ==
  /\ pc = "idle"
  /\ path = <<>>
  /\ endpoint = "none"
  /\ records = <<>>
  /\ rows = <<>>
  /\ html = ""
  /\ result = [kind |-> "none"]
  /\ fault = "none"

\* A GET request arrives and is routed; a path no route matches is answered
\* 404 at once.
Request ==
  /\ pc = "idle"
  /\ \E p \in Paths :
       /\ path' = p
       /\ endpoint' = RouteOf(p)
       /\ IF RouteOf(p) = "none"
          THEN pc' = "done" /\ result' = [kind |-> "not_found"]
          ELSE pc' = "routed" /\ result' = result
  /\ UNCHANGED <<records, rows, html, fault>>

\* The routed endpoint runs: the path parameters are validated (422 when
\* they do not convert), the worksheet is read and the function returns or
\* raises.
Call ==
  /\ pc = "routed"
  /\ IF ~ParamsValid(endpoint, path)
     THEN /\ result' = [kind |-> "unprocessable"]
          /\ UNCHANGED <<records, rows, html, fault>>
     ELSE \E recs \in Worksheet(endpoint) :
            LET out == Run(endpoint, path, recs) IN
            /\ records' = recs
            /\ rows' = out.rows
            /\ html' = out.html
            /\ result' = out.result
            /\ fault' = out.fault
  /\ pc' = "done"
  /\ UNCHANGED <<path, endpoint>>

\* The response is sent; nothing is kept between requests.
Respond ==
  /\ pc = "done"
  /\ pc' = "idle"
  /\ path' = <<>>
  /\ endpoint' = "none"
  /\ records' = <<>>
  /\ rows' = <<>>
  /\ html' = ""
  /\ result' = [kind |-> "none"]
  /\ fault' = "none"

Next == Request \/ Call \/ Respond

Spec == Init /\ [][Next]_vars

-----------------------------------------------------------------------------
(* Vocabulary of the properties *)

HtmlDone == pc = "done" /\ endpoint = "get_project_html"
HtmlReturned == HtmlDone /\ fault = "none"

\* Record j of the worksheet is one of the rows that were rendered.
InRows(j) == \E i \in DOMAIN rows : rows[i].row = records[j].row

\* The fragments of rws, one after the other.
RECURSIVE Fragments(_)
Fragments(rws) ==
  IF rws = <<>> THEN "" ELSE RowFragment(Head(rws)) \o Fragments(Tail(rws))

\* The flag of record j, lower-cased, is "no".
SaysNo(rec) == rec.visibilidad.t = "str" /\ Lower(rec.visibilidad.s) = c_no

\* The tag of the record is neither '' nor 0.
HasTag(rec) == rec.nivel_texto \notin {Str(<<>>), Num(0)}

-----------------------------------------------------------------------------
(* C1 *)

\* C1 (as stated): a row whose visibility flag, lower-cased, is "no" ("no",
\* "No", "NO") contributes no fragment to the html that is returned.
C1_LowerCasedNoHides ==
  HtmlReturned => \A j \in DOMAIN records : SaysNo(records[j]) => ~InRows(j)

\* C1 (amended): a row whose flag is exactly "no" contributes no fragment;
\* with any other flag, "No", "NO" and the empty string included, a row of
\* the requested group that has a tag is rendered.
C1_ExactNoHides ==
  HtmlReturned =>
    \A j \in DOMAIN records :
      /\ records[j].visibilidad = Str(c_no) => ~InRows(j)
      /\ ( /\ records[j].visibilidad # Str(c_no)
           /\ records[j].ID_proyecto = Str(path[2])
           /\ HasTag(records[j]) ) => InRows(j)

\* A "No" row was rendered next to a "no" row that was not.
C1_Witness ==
  /\ HtmlReturned
  /\ \E j, k \in DOMAIN records :
       /\ records[j].visibilidad = Str(c_No) /\ InRows(j)
       /\ records[k].visibilidad = Str(c_no) /\ ~InRows(k)
       /\ records[k].ID_proyecto = Str(path[2])

-----------------------------------------------------------------------------
(* C2 *)

\* C2: the requested id is matched as a string: no row of another group is
\* rendered, and every visible row with a tag whose group id, written as a
\* string, is the requested id is rendered (a stored number 1 for "1").
C2_MatchedAsString ==
  HtmlReturned =>
    \A j \in DOMAIN records :
      /\ InRows(j) => Format(records[j].ID_proyecto) = Join(path[2])
      /\ ( /\ Format(records[j].ID_proyecto) = Join(path[2])
           /\ HasTag(records[j])
           /\ ~SaysNo(records[j]) ) => InRows(j)

-----------------------------------------------------------------------------
(* C3 *)

OrdenLess(a, b) == IF a.t = "int" THEN a.n < b.n ELSE StrLess(a.s, b.s)

\* C3: the fragments are in ascending order of orden, rows of equal orden
\* in the order of the worksheet.
C3_AscendingStable ==
  HtmlReturned =>
    /\ html = css_styles \o Fragments(rows)
    /\ \A i, j \in DOMAIN rows :
         /\ OrdenLess(rows[i].orden, rows[j].orden) => i < j
         /\ (rows[i].orden = rows[j].orden /\ rows[i].row < rows[j].row)
              => i < j

\* Two rows were rendered in the opposite order of the worksheet.
C3_Witness ==
  /\ HtmlReturned
  /\ Len(rows) = 2
  /\ rows[1].row > rows[2].row
  /\ RowFragment(rows[1]) # RowFragment(rows[2])

-----------------------------------------------------------------------------
(* C4 *)

\* Character c is the table's character k, in either case.
SameLetter(c, k) ==
  c = k \/ \E n \in DOMAIN Uppers : Uppers[n] = k /\ Lowers[n] = c

\* tag is the table entry key up to the case of its letters and to
\* whitespace around it.
IsSpellingOf(tag, key) ==
  \E a \in 0..Len(tag) :
    /\ a + Len(key) <= Len(tag)
    /\ \A i \in 1..a : tag[i] \in Whitespace
    /\ \A i \in 1..Len(key) : SameLetter(tag[a + i], key[i])
    /\ \A i \in (a + Len(key) + 1)..Len(tag) : tag[i] \in Whitespace

\* The output shape the table gives for one of its entries.
TableShape(key, text) ==
  IF key \in HeadingTags
  THEN LET n == key[2]
           align == SubSeq(key, 3, Len(key))
           class == CASE align = <<"_", "I", "Z", "Q", "U", "I", "E", "R", "D", "A">> -> "text-start"
                      [] align = <<"_", "D", "E", "R", "E", "C", "H", "A">> -> "text-end"
                      [] OTHER -> "text-center"
       IN "<h" \o n \o " class='" \o class \o " mt-0'>" \o text \o "</h" \o n \o ">"
  ELSE CASE key = <<"P">> -> "<p>" \o text \o "</p>"
         [] key = <<"I", "M", "G">> ->
              "<img class='img-fluid mx-auto' src='" \o text \o "' alt='" \o text \o "' />"
         [] key = <<"A">> ->
              "<a href='" \o text \o "' target='_blank' class='text-center'>" \o text \o "</a>"
         [] key = <<"B", "R">> -> "<br />"
         [] key = <<"H", "R">> -> "<hr class='divider' />"
         [] key = <<"I", "F", "R", "A", "M", "E", "_", "L", "I", "N", "K">> ->
              "<iframe width='100%' height='600px' class='text-center my-3' src='"
                \o text \o "' frameborder='0' allowfullscreen></iframe>"
         [] key = <<"H", "T", "M", "L", "_", "R", "A", "W">> -> "<span class='my-3'>" \o text \o "</span>"
         [] key = <<"C", "S", "S">> -> "<style>" \o text \o "</style>"

\* The fragment the table gives for a row: its entry's shape, the paragraph
\* for a tag that spells no entry.
TableFragment(row) ==
  IF \E key \in TableTags : IsSpellingOf(row.nivel_texto.s, key)
  THEN TableShape(CHOOSE key \in TableTags : IsSpellingOf(row.nivel_texto.s, key),
                  Join(row.texto.s))
  ELSE "<p>" \o Join(row.texto.s) \o "</p>"

RECURSIVE TableFragments(_)
TableFragments(rws) ==
  IF rws = <<>> THEN ""
  ELSE TableFragment(Head(rws)) \o TableFragments(Tail(rws))

\* C4: a row whose tag spells a table entry, in any case and with any
\* whitespace around it, is rendered in that entry's shape.
C4_TableShapes ==
  (HtmlReturned /\ Len(rows) = 1) =>
    \A key \in TableTags :
      IsSpellingOf(rows[1].nivel_texto.s, key) =>
        html = css_styles \o TableShape(key, Join(rows[1].texto.s))

\* A padded lower-case h2_izquierda was rendered as the left-aligned h2.
C4_Witness ==
  /\ HtmlReturned
  /\ Len(rows) = 1
  /\ rows[1].nivel_texto.s =
       <<" ">> \o Lower(<<"H", "2", "_", "I", "Z", "Q", "U", "I", "E", "R", "D", "A">>) \o <<" ", "\t">>
  /\ html = css_styles \o "<h2 class='text-start mt-0'>Hello</h2>"

-----------------------------------------------------------------------------
(* C5 *)

\* C5: no row that passes the select stage makes the dispatch fail: once
\* the rows are selected and sorted, the html is returned with one fragment
\* per row, the paragraph for every tag outside the table.
C5_NoDispatchFailure ==
  (HtmlDone /\ fault \notin {"KeyError", "TypeError"}) =>
    /\ fault = "none"
    /\ html = css_styles \o TableFragments(rows)

-----------------------------------------------------------------------------
(* C6 *)

\* C6: the html returned is the constant prefix followed by the fragments
\* of the rendered rows and nothing else: the prefix alone when no row is
\* rendered, and the prefix, the h1 Hello and the paragraph World for the
\* three rows of the scenario.
C6_PrefixThenFragments ==
  HtmlReturned =>
    /\ result = [kind |-> "html", html |-> html]
    /\ html = css_styles \o TableFragments(rows)
    /\ rows = <<>> => html = css_styles
    /\ (records = Numbered(Scenario) /\ path[2] = c_p1) =>
         html = css_styles
                  \o "<h1 class='text-center mt-0'>Hello</h1><p>World</p>"

\* The scenario was rendered for p1.
C6_Witness ==
  /\ HtmlReturned
  /\ records = Numbered(Scenario)
  /\ path[2] = c_p1
  /\ Len(rows) = 2

-----------------------------------------------------------------------------
(* C10 *)

\* Record j passes the group, tag and visibility tests of the select loop.
Survives(j) ==
  /\ records[j].ID_proyecto = Str(path[2])
  /\ HasTag(records[j])
  /\ records[j].visibilidad # Str(c_no)

\* C10: the request dies in the sort exactly when a surviving row has no
\* orden or two surviving rows have orden values of different types, and
\* then no html is returned; the orden of an excluded row never matters.
C10_SortFailsOnSurvivorsOnly ==
  HtmlDone =>
    /\ fault \in {"KeyError", "TypeError"} <=>
         \/ \E j \in DOMAIN records :
              Survives(j) /\ records[j].orden.t = "absent"
         \/ \E j, k \in DOMAIN records :
              Survives(j) /\ Survives(k) /\ records[j].orden.t # records[k].orden.t
    /\ fault \in {"KeyError", "TypeError"} =>
         (html = "" /\ result = [kind |-> "none"])

\* The sort failed on two surviving rows, a number and a string.
C10_Witness ==
  /\ HtmlDone
  /\ Len(records) = 2
  /\ fault = "TypeError"
  /\ Survives(1) /\ Survives(2)
  /\ records[1].orden.t = "int" /\ records[2].orden.t = "str"

-----------------------------------------------------------------------------
(* C7 *)

BySlugDone == pc = "done" /\ endpoint = "get_project_by_slug"

\* Record j has a string slug equal to the requested one, case aside.
SlugMatches(j) ==
  /\ records[j].slug.t = "str"
  /\ Lower(records[j].slug.s) = Lower(path[3])

\* Record j has the id the requested slug reads as.
IdMatches(j) ==
  IntOk(path[3]) /\ records[j].id = Num(IntValue(path[3]))

NotFoundPayload ==
  [kind |-> "error", error |-> "Project not found", slug |-> path[3]]

FirstDeciding(j) ==
  /\ (SlugMatches(j) \/ records[j].slug.t = "int")
  /\ \A k \in 1..(j - 1) : ~(SlugMatches(k) \/ records[k].slug.t = "int")

-----------------------------------------------------------------------------
(* C8 *)

ProjectsDone == pc = "done" /\ endpoint = "get_projects"

\* Record j is one the list keeps: not hidden, and with an id.
Kept(j) ==
  /\ ~(records[j].visible.t = "str" /\ Lower(records[j].visible.s) = c_no)
  /\ records[j].id \notin {Str(<<>>), Num(0)}

\* C8: the records that are filtered out do not affect the result,
\* whatever their orden is: when the kept records have orden values of one
\* type, the list is returned, in ascending order of orden.
C8_FilteredOutDoNotAffect ==
  ( /\ ProjectsDone
    /\ \A j, k \in DOMAIN records :
         (Kept(j) /\ Kept(k)) => records[j].orden.t = records[k].orden.t )
  => /\ fault = "none"
     /\ result.kind = "list"
     /\ \A i, j \in DOMAIN result.list :
          OrdenLess(result.list[i].orden, result.list[j].orden) => i < j

-----------------------------------------------------------------------------
(* C9 *)

\* C9: a request for /projects/slugs is handled by get_all_slugs.
C9_SlugsListingReached ==
  (pc \in {"routed", "done"} /\ path = <<c_projects, c_slugs>>) =>
    endpoint = "get_all_slugs"

====
